---- MODULE Spec2Model ----
(***************************************************************************)
(* Talk-time metering and session lifecycle of src/app.py: check-in,       *)
(* heartbeat deduction under the per-user Redis lock, flush / end,         *)
(* balance read with community refill, and the ledger writes of the admin  *)
(* and payment endpoints, for one user and two concurrent request          *)
(* handlers.  Every store call (Redis or Supabase) is one atomic step;     *)
(* the wall clock may advance between any two steps of a handler.          *)
(*                                                                         *)
(* Time and talk time are counted in half seconds (TicksPerSec = 2), so    *)
(* that the fractional seconds of total_seconds() and of the float         *)
(* balances are represented.  The user's record exists throughout.         *)
(***************************************************************************)
EXTENDS Integers, FiniteSets, Sequences, TLC

\* ---------------------------------------------------------------- constants

\* Resolution of the model's clock: ticks per second of total_seconds().
TicksPerSec == 2

\* MAX_HEARTBEAT_GAP = 10.0
MAX_HEARTBEAT_GAP == 10 * TicksPerSec

\* if delta_seconds < 1.0: the sub-floor threshold of the heartbeat
MIN_DELTA == 1 * TicksPerSec

\* if delta_seconds > 15: delta_seconds = 15
FLUSH_CAP == 15 * TicksPerSec

\* redis_client.lock(..., timeout=5)
LOCK_TIMEOUT == 5 * TicksPerSec

\* SESSION_TTL = 3600
SESSION_TTL == 3600 * TicksPerSec

\* new_talktime = current_talktime + 900
REFILL_BONUS == 900 * TicksPerSec

\* (now - last_refill).days >= 30
REFILL_DAYS == 30

\* timedelta.days counts whole days of 86400 seconds
TicksPerDay == 86400 * TicksPerSec

\* add_talktime_to_user(current_user_email, 100)
PAYMENT_CREDIT == 100 * TicksPerSec

\* ------------------------------------------------------------------- bounds

\* Request handlers that may run concurrently for the user.
Procs == {"p1", "p2"}

\* The instants (in ticks) at which the wall clock is observed: 0 s, 0.5 s,
\* 1.5 s and 11.5 s.  Their differences cover a sub-floor delta (1), normal
\* deltas (2, 3), the lock timeout (>= 10), a delta of exactly
\* MAX_HEARTBEAT_GAP (20) and deltas above it (22, 23).
ClockReadings == {0, 1, 3, 23}

\* Balances (ticks) the user's record may hold when the system starts:
\* 2 s and 12 s.
InitBalances == {4, 24}

\* The values uuid4 may return; a check-in draws one that is not in use.
SessionIds == {1, 2, 3}

\* The instants at which the wall clock is observed over a membership: 0 s,
\* 1.5 s, 11.5 s, 21.5 s (more than the flush cap after the first two), one
\* tick short of 30 days, and 30 days.
CalendarReadings ==
    {0, 3, 23, 20 * TicksPerSec + 3, REFILL_DAYS * TicksPerDay - 1,
     REFILL_DAYS * TicksPerDay}

\* Number of community refills granted in one behaviour of the membership
\* specification.
MaxRefills == 2

\* The pauses a client makes between two heartbeats: 0.5 s, 1.5 s and 10 s.
HeartbeatIntervals == {1, 3, MAX_HEARTBEAT_GAP}

\* The time up to which the clock of the heartbeating client is counted:
\* 50 s.  Every session that started with one of InitBalances is over by
\* then, and the heartbeats sent afterwards do not depend on the time.
Horizon == 5 * MAX_HEARTBEAT_GAP

\* The instants at which the wall clock is observed around a lock timeout:
\* 0 s, 0.5 s, 1.5 s, 6.5 s, 8 s and 18 s.  A lock acquired at 1.5 s has
\* timed out at 6.5 s, and one acquired at 6.5 s is still held at 8 s.
LockReadings == {0, 1, 3, 13, 16, 36}

\* A balance (ticks) that outlasts the inactivity window of the slot: one
\* hour and 10 s.
LongBalance == SESSION_TTL + 10 * TicksPerSec

\* The time up to which a session over the inactivity window is followed:
\* one hour and 20 s.
LongHorizon == SESSION_TTL + 20 * TicksPerSec

\* Amounts (ticks: 2 s) the admin talktime endpoint is called with.
AdminAmounts == {4}

\* Payment order ids.
Orders == {"o1"}

\* Number of payment credits made in one behaviour of the payment
\* specification.
MaxPayments == 2

\* Number of balance adjustments (admin add or subtract, payment credit,
\* refill) made in one behaviour.
MaxAdjusts == 1

\* Task ids of the tasks table.
MaxTasks == 2
TaskIds == 1..MaxTasks

\* Processes running worker.py.
Workers == {"w1", "w2"}

VARIABLES
    boot,         \* module-level start-up of app.py: [phase, supabase, redis]
    now,          \* wall clock, in ticks
    talktime,     \* users.talktime of the user, in ticks
    member,       \* users.is_community_member
    lastRefill,   \* users.last_community_refill: [set, at]
    transactions, \* order ids in the transactions table
    slot,         \* Redis key session:<email>: [live, sid, lhb, exp]
    lock,         \* Redis key lock:<email>: [held, owner, exp]
    pc,           \* position of each request handler
    loc,          \* local variables and response of each request handler
    terminated,   \* history: a heartbeat returned terminate, no check-in since
    startBal,     \* history: the talktime the user's record started with
    adjusts,      \* history: number of balance adjustments begun so far
    account,      \* the users row itself: [exists, pw] (pw: password_hash set)
    tasks,        \* tasks table: status of each task id
    worker,       \* worker.py processes: [pc, task] of each
    processed,    \* history: care-plan emails sent for each task id
    claimed,      \* history: times claim_next_task returned each task id
    tokenCache,   \* _TOKEN_CACHE of the serving process: [token, ts]
    upstream      \* history: requests made to the upstream token endpoint

vars == <<boot, now, talktime, member, lastRefill, transactions, slot, lock,
          pc, loc, terminated, startBal, adjusts, account, tasks, worker,
          processed, claimed, tokenCache, upstream>>

ledger == <<talktime, member, lastRefill, transactions>>
hist == <<terminated, startBal, adjusts>>
queue == <<tasks, worker, processed, claimed>>
periphery == <<account, queue, tokenCache, upstream>>

\* ------------------------------------------------------------------ helpers

NoSlot == [live |-> FALSE, sid |-> 0, lhb |-> 0, exp |-> 0]
NoLock == [held |-> FALSE, owner |-> "none", exp |-> 0]
NoRefill == [set |-> FALSE, at |-> 0]

IdleLoc == [op |-> "none", acq |-> FALSE, aft |-> FALSE, iss |-> 0,
            bill |-> FALSE, sid |-> 0,
            lhb |-> 0, nowr |-> 0, delta |-> 0, cur |-> 0, nb |-> 0,
            out |-> "none", rem |-> 0, ded |-> 0, ord |-> "none",
            vip |-> FALSE, lref |-> NoRefill, tid |-> 0, tok |-> 0]

\* What is known of a handler once its response is sent.
DoneLoc(op, out) == [IdleLoc EXCEPT !.op = op, !.out = out]

\* The same for a heartbeat: whether it lowered the balance and, if it did,
\* when it was issued and which time it read.
DoneHb(out, bill, iss, nowr) ==
    [IdleLoc EXCEPT !.op = "heartbeat", !.out = out, !.bill = bill,
                    !.iss = IF bill THEN iss ELSE 0,
                    !.nowr = IF bill THEN nowr ELSE 0]

\* max(0, x)
Max0NoClamp(x) == x
Max0(x) == IF x < 0 THEN 0 ELSE x

\* int(x) of a float number of seconds: truncation towards zero.
IntSec(t) ==
    IF t >= 0 THEN (t \div TicksPerSec) * TicksPerSec
    ELSE 0 - (((0 - t) \div TicksPerSec) * TicksPerSec)

\* redis_client.get(f"session:{email}"): an expired key reads as absent.
SlotGet == IF slot.live /\ now < slot.exp THEN slot ELSE NoSlot

\* The lock key exists (the SET NX of lock.acquire fails).
LockBusy == lock.held /\ now < lock.exp

\* The module-level code of app.py has not run yet.
Importing == [phase |-> "import", supabase |-> "none", redis |-> "none"]

\* The process has imported app.py with both stores connected.
Serving == [phase |-> "serving", supabase |-> "client", redis |-> "connected"]

Goto(p, l) == pc' = [pc EXCEPT ![p] = l]
SetLoc(p, r) == loc' = [loc EXCEPT ![p] = r]

\* _TOKEN_CACHE = (None, datetime.min)
NoToken == [token |-> 0, ts |-> 0]

\* A worker at the top of the while loop of worker_loop.
Polling == [pc |-> "poll", task |-> 0]

\* ------------------------------------------------------------------ initial

\* The user's row exists with a password, the tasks table is empty, the
\* workers poll and no token is cached.
PeripheryIdle ==
    /\ account = [exists |-> TRUE, pw |-> TRUE]
    /\ tasks = [t \in TaskIds |-> "absent"]
    /\ worker = [w \in Workers |-> Polling]
    /\ processed = [t \in TaskIds |-> 0]
    /\ claimed = [t \in TaskIds |-> 0]
    /\ tokenCache = NoToken
    /\ upstream = 0

\* A user whose monthly refill, if a member, was granted at time 0.
Init ==
    /\ boot = Serving
    /\ now = 0
    /\ talktime \in InitBalances
    /\ member \in BOOLEAN
    /\ lastRefill = [set |-> TRUE, at |-> 0]
    /\ transactions = {}
    /\ slot = NoSlot
    /\ lock = NoLock
    /\ pc = [p \in Procs |-> "idle"]
    /\ loc = [p \in Procs |-> IdleLoc]
    /\ terminated = FALSE
    /\ startBal = talktime
    /\ adjusts = 0
    /\ PeripheryIdle

\* ----------------------------------------------------------------- start-up

\* supabase = None; if SUPABASE_URL and SUPABASE_KEY: create_client(...),
\* RuntimeError if it raises.  redis.from_url(...).ping(), RuntimeError if
\* it raises.  Otherwise the import completes and the routes are served.
Startup ==
    /\ boot.phase = "import"
    /\ \E configured \in BOOLEAN, created \in BOOLEAN, ping \in BOOLEAN :
         LET client == IF configured /\ created THEN "client" ELSE "none" IN
           boot' = IF configured /\ ~created
                   THEN [phase |-> "failed", supabase |-> "none",
                         redis |-> "none"]
                   ELSE IF ~ping
                   THEN [phase |-> "failed", supabase |-> client,
                         redis |-> "unreachable"]
                   ELSE [phase |-> "serving", supabase |-> client,
                         redis |-> "connected"]
    /\ UNCHANGED <<periphery, now, ledger, slot, lock, pc, loc, hist>>

\* GET /health: returns "healthy"; it touches neither store.
HealthCheck(p) ==
    /\ boot.phase = "serving"
    /\ pc[p] = "idle"
    /\ Goto(p, "done")
    /\ SetLoc(p, DoneLoc("health", "healthy"))
    /\ UNCHANGED <<periphery, boot, now, ledger, slot, lock, hist>>

\* -------------------------------------------------------------------- clock

Tick ==
    /\ \E t \in ClockReadings : t > now /\ now' = t
    /\ UNCHANGED <<periphery, boot, ledger, slot, lock, pc, loc, hist>>

\* The wall clock is set back (clock synchronisation, or the request is
\* served by a host whose clock is behind): datetime.now() returns an
\* earlier time than a last_heartbeat already stored.
ClockStepsBack ==
    /\ \E t \in ClockReadings : t < now /\ now' = t
    /\ UNCHANGED <<periphery, boot, ledger, slot, lock, pc, loc, hist>>

\* The wall clock around the timeout of the lock.
TickLock ==
    /\ \E t \in LockReadings : t > now /\ now' = t
    /\ UNCHANGED <<periphery, boot, ledger, slot, lock, pc, loc, hist>>

\* The wall clock over the weeks of a membership.
TickCalendar ==
    /\ \E t \in CalendarReadings : t > now /\ now' = t
    /\ UNCHANGED <<periphery, boot, ledger, slot, lock, pc, loc, hist>>

\* ---------------------------------------------------------------- heartbeat

\* The response a heartbeat has built when it reaches the finally clause.
Resp(p, out, rem, ded) ==
    [IdleLoc EXCEPT !.op = "heartbeat", !.acq = loc[p].acq, !.aft = loc[p].aft,
                    !.bill = loc[p].bill,
                    !.iss = IF loc[p].bill THEN loc[p].iss ELSE 0,
                    !.nowr = IF loc[p].bill THEN loc[p].nowr ELSE 0,
                    !.out = out, !.rem = rem, !.ded = ded]

\* lock.acquire(blocking=False): SET NX with a 5 s expiry
HbStart(p) ==
    /\ pc[p] = "idle"
    /\ IF LockBusy
       THEN /\ Goto(p, "hb_locked")
            /\ SetLoc(p, [IdleLoc EXCEPT !.op = "heartbeat",
                                         !.aft = terminated])
            /\ UNCHANGED lock
       ELSE /\ Goto(p, "hb_get")
            /\ SetLoc(p, [IdleLoc EXCEPT !.op = "heartbeat", !.acq = TRUE,
                            !.aft = terminated, !.iss = now])
            /\ lock' = [held |-> TRUE, owner |-> p, exp |-> now + LOCK_TIMEOUT]
    /\ UNCHANGED <<periphery, boot, now, ledger, slot, hist>>

\* not acquired: get_user, return ok with deducted 0 and note "locked"
HbLockedRenewsTtl(p) ==
    /\ pc[p] = "hb_locked"
    /\ slot' = IF SlotGet.live THEN [slot EXCEPT !.exp = now + SESSION_TTL]
               ELSE slot
    /\ Goto(p, "done")
    /\ SetLoc(p, DoneHb("locked", FALSE, 0, 0))
    /\ UNCHANGED <<periphery, boot, now, ledger, lock, hist>>
HbLockedFallsThrough(p) ==
    /\ pc[p] = "hb_locked"
    /\ Goto(p, "hb_get")
    /\ UNCHANGED <<periphery, boot, now, ledger, slot, lock, loc, hist>>
HbLocked(p) ==
    /\ pc[p] = "hb_locked"
    /\ Goto(p, "done")
    /\ SetLoc(p, DoneHb("locked", FALSE, 0, 0))
    /\ UNCHANGED <<periphery, boot, now, ledger, slot, lock, hist>>

\* raw = redis_client.get(...); if not session_data: return restart
HbGetNoSessionCheck(p) ==
    /\ pc[p] = "hb_get"
    /\ Goto(p, "hb_expire")
    /\ SetLoc(p, [loc[p] EXCEPT !.sid = SlotGet.sid, !.lhb = SlotGet.lhb])
    /\ UNCHANGED <<periphery, boot, now, ledger, slot, lock, hist>>
HbGet(p) ==
    /\ pc[p] = "hb_get"
    /\ IF SlotGet.live
       THEN /\ Goto(p, "hb_expire")
            /\ SetLoc(p, [loc[p] EXCEPT !.sid = SlotGet.sid, !.lhb = SlotGet.lhb])
       ELSE /\ Goto(p, "hb_release")
            /\ SetLoc(p, Resp(p, "restart", 0, 0))
    /\ UNCHANGED <<periphery, boot, now, ledger, slot, lock, hist>>

\* The branch the heartbeat takes on delta_seconds.
HbBranchNoSubFloor(d) ==
    IF d > MAX_HEARTBEAT_GAP THEN "hb_gap_read" ELSE "hb_norm_read"
HbBranchGapInclusive(d) ==
    IF d >= MAX_HEARTBEAT_GAP THEN "hb_gap_read"
    ELSE IF d < MIN_DELTA THEN "hb_sub_read"
    ELSE "hb_norm_read"
HbBranch(d) ==
    IF d > MAX_HEARTBEAT_GAP THEN "hb_gap_read"
    ELSE IF d < MIN_DELTA THEN "hb_sub_read"
    ELSE "hb_norm_read"

\* redis_client.expire(...); now = datetime.now(); delta_seconds = now - last
HbExpireNoRenew(p) ==
    /\ pc[p] = "hb_expire"
    /\ LET d == now - loc[p].lhb IN
         /\ SetLoc(p, [loc[p] EXCEPT !.nowr = now, !.delta = d, !.lhb = 0,
                         !.sid = IF HbBranch(d) = "hb_norm_read" THEN @ ELSE 0])
         /\ Goto(p, HbBranch(d))
    /\ UNCHANGED <<periphery, boot, now, ledger, slot, lock, hist>>
HbExpire(p) ==
    /\ pc[p] = "hb_expire"
    /\ slot' = IF SlotGet.live THEN [slot EXCEPT !.exp = now + SESSION_TTL] ELSE slot
    /\ LET d == now - loc[p].lhb IN
         /\ SetLoc(p, [loc[p] EXCEPT !.nowr = now, !.delta = d, !.lhb = 0,
                         !.sid = IF HbBranch(d) = "hb_norm_read" THEN @ ELSE 0])
         /\ Goto(p, HbBranch(d))
    /\ UNCHANGED <<periphery, boot, now, ledger, lock, hist>>

\* The balance the gap branch writes: max(0, current_balance - MAX_HEARTBEAT_GAP)
GapBalanceFullDelta(cur, d) == Max0(cur - d)
GapBalance(cur, d) == Max0(cur - MAX_HEARTBEAT_GAP)

\* gap exceeded: user = get_user(...); new_balance = max(0, current - 10)
HbGapRead(p) ==
    /\ pc[p] = "hb_gap_read"
    /\ SetLoc(p, [loc[p] EXCEPT !.cur = talktime,
                                !.nb = GapBalance(talktime, loc[p].delta)])
    /\ Goto(p, "hb_gap_write")
    /\ UNCHANGED <<periphery, boot, now, ledger, slot, lock, hist>>

\* update_user(email, {"talktime": new_balance})
HbGapWrite(p) ==
    /\ pc[p] = "hb_gap_write"
    /\ talktime' = loc[p].nb
    /\ SetLoc(p, [loc[p] EXCEPT !.cur = 0, !.delta = 0,
                                !.bill = (loc[p].cur > loc[p].nb)])
    /\ Goto(p, "hb_gap_del")
    /\ UNCHANGED <<periphery, boot, now, member, lastRefill, transactions, slot, lock, hist>>

\* redis_client.delete(...); return terminate with remaining_seconds
HbGapDel(p) ==
    /\ pc[p] = "hb_gap_del"
    /\ slot' = NoSlot
    /\ SetLoc(p, Resp(p, "terminate_gap", loc[p].nb, 0))
    /\ Goto(p, "hb_release")
    /\ UNCHANGED <<periphery, boot, now, ledger, lock, hist>>

\* delta < 1.0: return ok, remaining = get_user().talktime, deducted 0
HbSubReadStoresHeartbeat(p) ==
    /\ pc[p] = "hb_sub_read"
    /\ SetLoc(p, Resp(p, "ok", talktime, 0))
    /\ slot' = [slot EXCEPT !.lhb = now]
    /\ Goto(p, "hb_release")
    /\ UNCHANGED <<periphery, boot, now, ledger, lock, hist>>
HbSubRead(p) ==
    /\ pc[p] = "hb_sub_read"
    /\ SetLoc(p, Resp(p, "ok", talktime, 0))
    /\ Goto(p, "hb_release")
    /\ UNCHANGED <<periphery, boot, now, ledger, slot, lock, hist>>

\* The balance the normal branch computes: max(0, current_balance - delta)
NormBalance(cur, d) == Max0(cur - d)

\* if new_balance <= 0: the session is exhausted
ExhaustedBelowZero(nb) == nb < 0
Exhausted(nb) == nb <= 0

\* user = get_user(...); new_balance = max(0, current - delta); if <= 0 ...
HbNormRead(p) ==
    /\ pc[p] = "hb_norm_read"
    /\ LET nb == NormBalance(talktime, loc[p].delta) IN
         /\ SetLoc(p, [loc[p] EXCEPT !.cur = talktime, !.nb = nb,
                         !.sid = IF Exhausted(nb) THEN 0 ELSE @])
         /\ Goto(p, IF Exhausted(nb) THEN "hb_exh_del" ELSE "hb_norm_write")
    /\ UNCHANGED <<periphery, boot, now, ledger, slot, lock, hist>>

\* exhausted: redis_client.delete(...)
HbExhDel(p) ==
    /\ pc[p] = "hb_exh_del"
    /\ slot' = NoSlot
    /\ Goto(p, "hb_exh_write")
    /\ UNCHANGED <<periphery, boot, now, ledger, lock, loc, hist>>

\* exhausted: update_user(email, {"talktime": 0}); return terminate, 0
HbExhWrite(p) ==
    /\ pc[p] = "hb_exh_write"
    /\ talktime' = 0
    /\ SetLoc(p, [Resp(p, "terminate_exhausted", 0, 0) EXCEPT
                     !.bill = (loc[p].cur > 0),
                     !.iss = IF loc[p].cur > 0 THEN loc[p].iss ELSE 0,
                     !.nowr = IF loc[p].cur > 0 THEN loc[p].nowr ELSE 0])
    /\ Goto(p, "hb_release")
    /\ UNCHANGED <<periphery, boot, now, member, lastRefill, transactions, slot, lock, hist>>

\* update_user(email, {"talktime": new_balance})
HbNormWrite(p) ==
    /\ pc[p] = "hb_norm_write"
    /\ talktime' = loc[p].nb
    /\ SetLoc(p, [loc[p] EXCEPT !.cur = 0, !.bill = (loc[p].cur > loc[p].nb)])
    /\ Goto(p, "hb_norm_setex")
    /\ UNCHANGED <<periphery, boot, now, member, lastRefill, transactions, slot, lock, hist>>

\* session_data["last_heartbeat"] = now; redis_client.setex(...); return ok
HbNormSetex(p) ==
    /\ pc[p] = "hb_norm_setex"
    /\ slot' = [live |-> TRUE, sid |-> loc[p].sid, lhb |-> loc[p].nowr,
                exp |-> now + SESSION_TTL]
    /\ SetLoc(p, Resp(p, "ok", loc[p].nb, loc[p].delta))
    /\ Goto(p, "hb_release")
    /\ UNCHANGED <<periphery, boot, now, ledger, lock, hist>>

\* Positions of a heartbeat inside the try block: each is a call of Redis or
\* Supabase that has still to be made.
HbStorePcs ==
    {"hb_get", "hb_expire", "hb_gap_read", "hb_gap_write", "hb_gap_del",
     "hb_sub_read", "hb_norm_read", "hb_exh_del", "hb_exh_write",
     "hb_norm_write", "hb_norm_setex"}

\* The store call raises (redis.RedisError, or the AppError of get_user and
\* update_user): nothing is written, control passes to the finally clause
\* and the request is answered with an error.
HbStoreErrorNoFinally(p) ==
    /\ pc[p] \in HbStorePcs
    /\ Goto(p, "done")
    /\ SetLoc(p, DoneHb("error", loc[p].bill, loc[p].iss, loc[p].nowr))
    /\ UNCHANGED <<periphery, boot, now, ledger, slot, lock, hist>>
HbStoreError(p) ==
    /\ pc[p] \in HbStorePcs
    /\ Goto(p, "hb_release")
    /\ SetLoc(p, Resp(p, "error", 0, 0))
    /\ UNCHANGED <<periphery, boot, now, ledger, slot, lock, hist>>

\* finally: lock.release() (LockNotOwnedError swallowed); the response is sent
HbReleaseUnchecked(p) ==
    /\ pc[p] = "hb_release"
    /\ lock' = NoLock
    /\ terminated' = IF /\ loc[p].out \in {"terminate_gap", "terminate_exhausted"}
                        /\ ~SlotGet.live
                     THEN TRUE ELSE terminated
    /\ Goto(p, "done")
    /\ SetLoc(p, DoneHb(loc[p].out, loc[p].bill, loc[p].iss, loc[p].nowr))
    /\ UNCHANGED <<periphery, boot, now, ledger, slot, startBal, adjusts>>
HbRelease(p) ==
    /\ pc[p] = "hb_release"
    /\ lock' = IF lock.held /\ lock.owner = p THEN NoLock ELSE lock
    /\ terminated' = IF /\ loc[p].out \in {"terminate_gap", "terminate_exhausted"}
                        /\ ~SlotGet.live
                     THEN TRUE ELSE terminated
    /\ Goto(p, "done")
    /\ SetLoc(p, DoneHb(loc[p].out, loc[p].bill, loc[p].iss, loc[p].nowr))
    /\ UNCHANGED <<periphery, boot, now, ledger, slot, startBal, adjusts>>

\* The handler has returned; the worker takes the next request.
Return(p) ==
    /\ pc[p] = "done"
    /\ Goto(p, "idle")
    /\ SetLoc(p, IdleLoc)
    /\ UNCHANGED <<periphery, boot, now, ledger, slot, lock, hist>>

\* ----------------------------------------------------------------- check-in

\* str(uuid.uuid4())[:8]: an id that no slot and no handler holds.  Ids are
\* only compared for equality, so the least unused one stands for any.
SidFresh(s) == (slot.live => slot.sid # s) /\ \A q \in Procs : loc[q].sid # s
NewSid == CHOOSE s \in SessionIds :
            SidFresh(s) /\ \A t \in SessionIds : SidFresh(t) => s <= t

\* The funds gate: not (int(user.get("talktime", 0)) <= 0)
CheckInFunds(bal) == IntSec(bal) > 0

\* user = get_user(...); membership gate; funds gate; session_id = uuid4;
\* now_iso = datetime.now()
CiStartNoMembershipGate(p) ==
    /\ pc[p] = "idle"
    /\ IF ~CheckInFunds(talktime)
       THEN /\ Goto(p, "done")
            /\ SetLoc(p, DoneLoc("check_in", "insufficient"))
       ELSE /\ Goto(p, "ci_setex")
            /\ SetLoc(p, [IdleLoc EXCEPT !.op = "check_in", !.cur = talktime,
                                         !.sid = NewSid, !.nowr = now])
    /\ UNCHANGED <<periphery, boot, now, ledger, slot, lock, hist>>
CiStart(p) ==
    /\ pc[p] = "idle"
    /\ IF ~member
       THEN /\ Goto(p, "done")
            /\ SetLoc(p, DoneLoc("check_in", "denied"))
       ELSE IF ~CheckInFunds(talktime)
       THEN /\ Goto(p, "done")
            /\ SetLoc(p, DoneLoc("check_in", "insufficient"))
       ELSE /\ Goto(p, "ci_setex")
            /\ SetLoc(p, [IdleLoc EXCEPT !.op = "check_in", !.cur = talktime,
                                         !.sid = NewSid, !.nowr = now])
    /\ UNCHANGED <<periphery, boot, now, ledger, slot, lock, hist>>

\* redis_client.setex(f"session:{email}", SESSION_TTL, session_data)
CiSetex(p) ==
    /\ pc[p] = "ci_setex"
    /\ slot' = [live |-> TRUE, sid |-> loc[p].sid, lhb |-> loc[p].nowr,
                exp |-> now + SESSION_TTL]
    /\ Goto(p, "ci_audit")
    /\ loc' = [q \in Procs |->
                 IF q = p THEN [loc[p] EXCEPT !.sid = 0, !.nowr = 0]
                 ELSE [loc[q] EXCEPT !.aft = FALSE]]
    /\ terminated' = FALSE
    /\ UNCHANGED <<periphery, boot, now, ledger, lock, startBal, adjusts>>

\* update_user(email, {last_active_heartbeat, session_status}); return the
\* session id and int(user.get("talktime", 0))
CiAudit(p) ==
    /\ pc[p] = "ci_audit"
    /\ Goto(p, "done")
    /\ SetLoc(p, [DoneLoc("check_in", "started") EXCEPT
                     !.rem = IntSec(loc[p].cur)])
    /\ UNCHANGED <<periphery, boot, now, ledger, slot, lock, hist>>

\* -------------------------------------------- flush, end and balance read

\* Sanity check of flush_pending_time: delta clamped into [0, 15] seconds.
FlushDeltaHeartbeatCap(d) ==
    IF d > MAX_HEARTBEAT_GAP THEN MAX_HEARTBEAT_GAP ELSE IF d < 0 THEN 0 ELSE d
FlushDeltaNoCap(d) == IF d < 0 THEN 0 ELSE d
FlushDelta(d) == IF d > FLUSH_CAP THEN FLUSH_CAP ELSE IF d < 0 THEN 0 ELSE d

\* Where a handler continues once flush_pending_time has returned.
AfterFlushSkipsRefill(op) == IF op = "end" THEN "end_ret" ELSE "bal_read"
AfterFlush(op) == IF op = "end" THEN "end_ret" ELSE "rf_read"

\* flush_pending_time: raw = redis_client.get(...)
FlStartNoSlotCheck(p) ==
    /\ pc[p] = "idle"
    /\ \E op \in {"end", "balance"} :
         /\ Goto(p, "fl_del")
         /\ SetLoc(p, [IdleLoc EXCEPT !.op = op, !.lhb = SlotGet.lhb])
    /\ UNCHANGED <<periphery, boot, now, ledger, slot, lock, hist>>
FlStart(p) ==
    /\ pc[p] = "idle"
    /\ \E op \in {"end", "balance"} :
         IF SlotGet.live
         THEN /\ Goto(p, "fl_del")
              /\ SetLoc(p, [IdleLoc EXCEPT !.op = op, !.lhb = SlotGet.lhb])
         ELSE /\ Goto(p, AfterFlush(op))
              /\ SetLoc(p, [IdleLoc EXCEPT !.op = op, !.out = "no_slot"])
    /\ UNCHANGED <<periphery, boot, now, ledger, slot, lock, hist>>

\* redis_client.delete(...); now = datetime.now(); clamp delta
FlDel(p) ==
    /\ pc[p] = "fl_del"
    /\ slot' = NoSlot
    /\ LET d == FlushDelta(now - loc[p].lhb) IN
         /\ SetLoc(p, [loc[p] EXCEPT !.delta = d, !.lhb = 0])
         /\ Goto(p, IF d > 0 THEN "fl_read" ELSE AfterFlush(loc[p].op))
    /\ UNCHANGED <<periphery, boot, now, ledger, lock, hist>>

\* user = get_user(email); new_bal = max(0, current - delta_seconds)
FlRead(p) ==
    /\ pc[p] = "fl_read"
    /\ SetLoc(p, [loc[p] EXCEPT !.cur = talktime,
                                !.nb = Max0(talktime - loc[p].delta)])
    /\ Goto(p, "fl_write")
    /\ UNCHANGED <<periphery, boot, now, ledger, slot, lock, hist>>

\* update_user(email, {"talktime": new_bal})
FlWrite(p) ==
    /\ pc[p] = "fl_write"
    /\ talktime' = loc[p].nb
    /\ SetLoc(p, [IdleLoc EXCEPT !.op = loc[p].op])
    /\ Goto(p, AfterFlush(loc[p].op))
    /\ UNCHANGED <<periphery, boot, now, member, lastRefill, transactions, slot, lock, hist>>

\* GET /api/user/talktime: the flush with which a balance read begins.
BalStart(p) == FlStart(p) /\ loc'[p].op = "balance"

\* end_secure_session: return {"ok": True}
EndRet(p) ==
    /\ pc[p] = "end_ret"
    /\ Goto(p, "done")
    /\ SetLoc(p, DoneLoc("end", "ended"))
    /\ UNCHANGED <<periphery, boot, now, ledger, slot, lock, hist>>

\* never refilled, or (now - last_refill).days >= 30
RefillDueBySeconds(t) ==
    \/ ~lastRefill.set
    \/ (t - lastRefill.at) \div TicksPerSec >= REFILL_DAYS
RefillDue(t) ==
    \/ ~lastRefill.set
    \/ (t - lastRefill.at) \div TicksPerDay >= REFILL_DAYS

\* check_and_refill_community_bonus: select the user, decide;
\* new_talktime = int(talktime) + 900.  At most cap balance adjustments are
\* made in one behaviour.
RfReadUpTo(p, cap) ==
    /\ pc[p] = "rf_read"
    /\ IF member /\ RefillDue(now)
       THEN /\ adjusts < cap
            /\ adjusts' = adjusts + 1
            /\ Goto(p, "rf_write")
            /\ SetLoc(p, [IdleLoc EXCEPT !.op = "balance", !.nowr = now,
                            !.nb = IntSec(talktime) + REFILL_BONUS])
       ELSE /\ Goto(p, "bal_read")
            /\ SetLoc(p, [IdleLoc EXCEPT !.op = "balance",
                                         !.out = "no_refill"])
            /\ UNCHANGED adjusts
    /\ UNCHANGED <<periphery, boot, now, ledger, slot, lock, terminated, startBal>>

\* The refill check where it competes with the other balance adjustments.
RfRead(p) == RfReadUpTo(p, MaxAdjusts)

\* update({"talktime": new_talktime, "last_community_refill": now})
RfWrite(p) ==
    /\ pc[p] = "rf_write"
    /\ talktime' = loc[p].nb
    /\ lastRefill' = [set |-> TRUE, at |-> loc[p].nowr]
    /\ Goto(p, "bal_read")
    /\ SetLoc(p, [IdleLoc EXCEPT !.op = "balance", !.out = "refilled"])
    /\ UNCHANGED <<periphery, boot, now, member, transactions, slot, lock, hist>>

\* user = get_user(...); return the talktime
BalRead(p) ==
    /\ pc[p] = "bal_read"
    /\ Goto(p, "done")
    /\ SetLoc(p, [DoneLoc("balance", "balance") EXCEPT !.rem = talktime])
    /\ UNCHANGED <<periphery, boot, now, ledger, slot, lock, hist>>

\* ------------------------------------------------- admin talktime endpoints

\* add_talktime_to_user(email, amount): user = get_user(email);
\* max(0, current_talktime + amount); "subtract" passes -amount
AdmAddRead(p) ==
    /\ pc[p] = "idle"
    /\ \E a \in AdminAmounts, sign \in {1, -1} :
         /\ adjusts < MaxAdjusts
         /\ adjusts' = adjusts + 1
         /\ SetLoc(p, [IdleLoc EXCEPT !.op = "admin",
                                      !.nb = Max0(talktime + sign * a)])
    /\ Goto(p, "adm_write")
    /\ UNCHANGED <<periphery, boot, now, ledger, slot, lock, terminated, startBal>>

\* update_user(email, {"talktime": max(0, current_talktime + amount)})
AdmWrite(p) ==
    /\ pc[p] = "adm_write"
    /\ talktime' = loc[p].nb
    /\ Goto(p, "done")
    /\ SetLoc(p, DoneLoc("admin", "updated"))
    /\ UNCHANGED <<periphery, boot, now, member, lastRefill, transactions, slot, lock, hist>>

\* set_user_talktime(email, amount): update_user(talktime = max(0, amount))
AdmSet(p) ==
    /\ pc[p] = "idle"
    /\ \E a \in AdminAmounts : talktime' = Max0(a)
    /\ Goto(p, "done")
    /\ SetLoc(p, DoneLoc("admin", "updated"))
    /\ UNCHANGED <<periphery, boot, now, member, lastRefill, transactions, slot, lock, hist>>

\* reset_user_data / reset_talktime_endpoint: talktime = 0
AdmReset(p) ==
    /\ pc[p] = "idle"
    /\ talktime' = 0
    /\ Goto(p, "done")
    /\ SetLoc(p, DoneLoc("admin", "updated"))
    /\ UNCHANGED <<periphery, boot, now, member, lastRefill, transactions, slot, lock, hist>>

\* ------------------------------------------------------------- the client

\* The client has the response of its heartbeat, waits one of the intervals
\* and sends the next heartbeat.
ClientWait(p) ==
    /\ pc[p] = "done"
    /\ \E d \in HeartbeatIntervals :
         now' = IF now + d <= Horizon THEN now + d ELSE Horizon
    /\ Goto(p, "idle")
    /\ SetLoc(p, IdleLoc)
    /\ UNCHANGED <<periphery, boot, ledger, slot, lock, hist>>

\* The client's session is running (the last heartbeat returned ok): it
\* waits one of the intervals and sends the next heartbeat.
ClientKeepsAlive(p) ==
    /\ pc[p] = "done"
    /\ loc[p].out = "ok"
    /\ \E d \in HeartbeatIntervals : now + d <= LongHorizon /\ now' = now + d
    /\ Goto(p, "idle")
    /\ SetLoc(p, IdleLoc)
    /\ UNCHANGED <<periphery, boot, ledger, slot, lock, hist>>

\* ------------------------------------------------------- worker processes

\* The worker handling the request stops where it is (gunicorn kills a
\* worker that exceeds the timeout): nothing of the handler runs any more,
\* not even the finally clause of the heartbeat.
Crash(p) ==
    /\ pc[p] \notin {"idle", "done", "crashed"}
    /\ Goto(p, "crashed")
    /\ UNCHANGED <<periphery, boot, now, ledger, slot, lock, loc, hist>>

\* gunicorn replaces the worker; the new one takes the next request.
Restart(p) ==
    /\ pc[p] = "crashed"
    /\ Goto(p, "idle")
    /\ SetLoc(p, IdleLoc)
    /\ UNCHANGED <<periphery, boot, now, ledger, slot, lock, hist>>

\* ----------------------------------------------- admin membership endpoints

\* add_community_member: select the user (404 if absent)
ComAddRead(p) ==
    /\ pc[p] = "idle"
    /\ Goto(p, "com_add_write")
    /\ SetLoc(p, [IdleLoc EXCEPT !.op = "community"])
    /\ UNCHANGED <<periphery, boot, now, ledger, slot, lock, hist>>

\* update({"is_community_member": True})
ComAddWrite(p) ==
    /\ pc[p] = "com_add_write"
    /\ member' = TRUE
    /\ Goto(p, "done")
    /\ SetLoc(p, DoneLoc("community", "updated"))
    /\ UNCHANGED <<periphery, boot, now, talktime, lastRefill, transactions, slot, lock,
                   hist>>

\* remove_community_member:
\* update({"is_community_member": False, "last_community_refill": None})
ComRemove(p) ==
    /\ pc[p] = "idle"
    /\ member' = FALSE
    /\ lastRefill' = NoRefill
    /\ Goto(p, "done")
    /\ SetLoc(p, DoneLoc("community", "updated"))
    /\ UNCHANGED <<periphery, boot, now, talktime, transactions, slot, lock, hist>>

\* toggle_vip_endpoint: user = get_user(email); new_status = not current
VipRead(p) ==
    /\ pc[p] = "idle"
    /\ Goto(p, "vip_write")
    /\ SetLoc(p, [IdleLoc EXCEPT !.op = "community", !.vip = ~member,
                                 !.lref = IF member THEN NoRefill
                                          ELSE lastRefill])
    /\ UNCHANGED <<periphery, boot, now, ledger, slot, lock, hist>>

\* update_user(email, {"is_community_member": new_status,
\*   "last_community_refill": None if not new_status else the value read})
VipWrite(p) ==
    /\ pc[p] = "vip_write"
    /\ member' = loc[p].vip
    /\ lastRefill' = IF ~loc[p].vip THEN NoRefill ELSE loc[p].lref
    /\ Goto(p, "done")
    /\ SetLoc(p, DoneLoc("community", "updated"))
    /\ UNCHANGED <<periphery, boot, now, talktime, transactions, slot, lock, hist>>

\* ------------------------------------------------------------------ payment

\* is_transaction_processed(order_id): len(res.data) > 0 of the select on
\* transactions; False when the select raises.
IsTransactionProcessed(o, lookupOk) == lookupOk /\ o \in transactions

\* verify_razorpay_payment: missing fields, replay check
\* (is_transaction_processed), signature check
PayStart(p) ==
    /\ pc[p] = "idle"
    /\ \E o \in Orders, fieldsOk \in BOOLEAN, lookupOk \in BOOLEAN,
          sigOk \in BOOLEAN :
         IF fieldsOk /\ ~IsTransactionProcessed(o, lookupOk) /\ sigOk
         THEN /\ Goto(p, "pay_add_read")
              /\ SetLoc(p, [IdleLoc EXCEPT !.op = "payment", !.ord = o])
         ELSE /\ Goto(p, "done")
              /\ SetLoc(p, DoneLoc("payment", "pay_error"))
    /\ UNCHANGED <<periphery, boot, now, ledger, slot, lock, hist>>

\* add_talktime_to_user(email, 100): user = get_user(email).  At most cap
\* balance adjustments are made in one behaviour.
PayAddReadUpTo(p, cap) ==
    /\ pc[p] = "pay_add_read"
    /\ adjusts < cap
    /\ adjusts' = adjusts + 1
    /\ SetLoc(p, [loc[p] EXCEPT !.nb = Max0(talktime + PAYMENT_CREDIT)])
    /\ Goto(p, "pay_add_write")
    /\ UNCHANGED <<periphery, boot, now, ledger, slot, lock, terminated, startBal>>

\* The payment credit where it competes with the other balance adjustments.
PayAddRead(p) == PayAddReadUpTo(p, MaxAdjusts)

\* update_user(email, {"talktime": max(0, current_talktime + 100)})
PayAddWrite(p) ==
    /\ pc[p] = "pay_add_write"
    /\ talktime' = loc[p].nb
    /\ SetLoc(p, [loc[p] EXCEPT !.nb = 0])
    /\ Goto(p, "pay_record")
    /\ UNCHANGED <<periphery, boot, now, member, lastRefill, transactions, slot, lock, hist>>

\* record_transaction: the insert succeeds, or fails and is only logged;
\* then the response is sent
PayRecord(p) ==
    /\ pc[p] = "pay_record"
    /\ \E inserted \in BOOLEAN :
         transactions' = IF inserted THEN transactions \cup {loc[p].ord}
                         ELSE transactions
    /\ Goto(p, "done")
    /\ SetLoc(p, DoneLoc("payment", "paid"))
    /\ UNCHANGED <<periphery, boot, now, talktime, member, lastRefill, slot, lock, hist>>

\* --------------------------------------------------------------- task queue

\* upload_session: an empty or short transcript is refused with 400;
\* otherwise supabase.table("tasks").insert({... "status": "pending"}) runs
\* inside try / except Exception, which only logs, and the response is
\* {"ok": True, "message": "Processing queued"} either way.  loc.tid is the
\* row the insert created, 0 if it created none.
UploadSession(p) ==
    /\ pc[p] = "idle"
    /\ \E t \in TaskIds : tasks[t] = "absent"
    /\ \E valid \in BOOLEAN, inserted \in BOOLEAN :
         LET t == CHOOSE i \in TaskIds :
                     /\ tasks[i] = "absent"
                     /\ \A j \in TaskIds : tasks[j] = "absent" => i <= j
         IN  IF ~valid
             THEN /\ SetLoc(p, DoneLoc("upload", "upload_error"))
                  /\ UNCHANGED tasks
             ELSE IF inserted
             THEN /\ tasks' = [tasks EXCEPT ![t] = "pending"]
                  /\ SetLoc(p, [DoneLoc("upload", "queued") EXCEPT !.tid = t])
             ELSE /\ SetLoc(p, DoneLoc("upload", "queued"))
                  /\ UNCHANGED tasks
    /\ Goto(p, "done")
    /\ UNCHANGED <<boot, now, ledger, slot, lock, hist, account, worker,
                   processed, claimed, tokenCache, upstream>>

\* The tables and caches a worker step leaves alone.
AppState == <<boot, now, ledger, slot, lock, pc, loc, hist, account,
              tokenCache, upstream>>

\* supabase.rpc("claim_next_task", {}): the database function, which per
\* the comments of worker.py atomically picks one pending task, sets its
\* status to 'processing' and returns it; with no pending task, or when the
\* call raises, worker_loop sleeps.
ClaimNextTask(w) ==
    /\ worker[w].pc = "poll"
    /\ \/ \E t \in TaskIds :
            /\ tasks[t] = "pending"
            /\ tasks' = [tasks EXCEPT ![t] = "processing"]
            /\ claimed' = [claimed EXCEPT ![t] = @ + 1]
            /\ worker' = [worker EXCEPT ![w] = [pc |-> "gemini", task |-> t]]
       \/ /\ worker' = [worker EXCEPT ![w] = [pc |-> "sleep", task |-> 0]]
          /\ UNCHANGED <<tasks, claimed>>
    /\ UNCHANGED <<AppState, processed>>

\* time.sleep(2) or time.sleep(5), then the next round of while True.
WorkerSleep(w) ==
    /\ worker[w].pc = "sleep"
    /\ worker' = [worker EXCEPT ![w] = Polling]
    /\ UNCHANGED <<AppState, tasks, processed, claimed>>

\* _call_gemini_mindmap_blueprint(transcript): returns a care plan, a
\* fallback text when the API fails; it never raises.
CallGemini(w) ==
    /\ worker[w].pc = "gemini"
    /\ worker' = [worker EXCEPT ![w].pc = "save"]
    /\ UNCHANGED <<AppState, tasks, processed, claimed>>

\* save_blueprint_to_disk: upsert into blueprints; AppError if it raises.
SaveBlueprint(w) ==
    /\ worker[w].pc = "save"
    /\ \E ok \in BOOLEAN :
         worker' = [worker EXCEPT ![w].pc = IF ok THEN "record" ELSE "fail"]
    /\ UNCHANGED <<AppState, tasks, processed, claimed>>

\* record_user_session inside its own try / except: a failure is logged.
RecordSession(w) ==
    /\ worker[w].pc = "record"
    /\ worker' = [worker EXCEPT ![w].pc = "email"]
    /\ UNCHANGED <<AppState, tasks, processed, claimed>>

\* _delayed_email_with_link(email, link, care_plan, 0): catches everything.
SendEmail(w) ==
    /\ worker[w].pc = "email"
    /\ processed' = [processed EXCEPT ![worker[w].task] = @ + 1]
    /\ worker' = [worker EXCEPT ![w].pc = "complete"]
    /\ UNCHANGED <<AppState, tasks, claimed>>

\* tasks.update({"status": "completed"}).eq("id", task_id) inside the try:
\* if it raises, the except branch marks the task failed.
MarkCompleted(w) ==
    /\ worker[w].pc = "complete"
    /\ \E ok \in BOOLEAN :
         IF ok
         THEN /\ tasks' = [tasks EXCEPT ![worker[w].task] = "completed"]
              /\ worker' = [worker EXCEPT ![w] = Polling]
         ELSE /\ worker' = [worker EXCEPT ![w].pc = "fail"]
              /\ UNCHANGED tasks
    /\ UNCHANGED <<AppState, processed, claimed>>

\* except Exception: tasks.update({"status": "failed"}).eq("id", task_id).
\* The update is not protected: if it raises, the exception reaches the
\* except of worker_loop, which logs it and sleeps 5 seconds.
MarkFailed(w) ==
    /\ worker[w].pc = "fail"
    /\ \E ok \in BOOLEAN :
         IF ok
         THEN /\ tasks' = [tasks EXCEPT ![worker[w].task] = "failed"]
              /\ worker' = [worker EXCEPT ![w] = Polling]
         ELSE /\ worker' = [worker EXCEPT ![w] = [pc |-> "sleep", task |-> 0]]
              /\ UNCHANGED tasks
    /\ UNCHANGED <<AppState, processed, claimed>>

\* The worker process stops (it is killed, or its host goes down).
WorkerStop(w) ==
    /\ worker[w].pc # "stopped"
    /\ worker' = [worker EXCEPT ![w] = [pc |-> "stopped", task |-> 0]]
    /\ UNCHANGED <<AppState, tasks, processed, claimed>>

\* python worker.py is started again.
WorkerStart(w) ==
    /\ worker[w].pc = "stopped"
    /\ worker' = [worker EXCEPT ![w] = Polling]
    /\ UNCHANGED <<AppState, tasks, processed, claimed>>

\* One step of worker_loop in process w.
WorkerStep(w) ==
    \/ ClaimNextTask(w)
    \/ WorkerSleep(w)
    \/ CallGemini(w)
    \/ SaveBlueprint(w)
    \/ RecordSession(w)
    \/ SendEmail(w)
    \/ MarkCompleted(w)
    \/ MarkFailed(w)

\* -------------------------------------------------------------- token cache

\* TOKEN_CACHE_TTL = timedelta(seconds=55)
TOKEN_CACHE_TTL == 55 * TicksPerSec

\* Clock readings around the age limit of the cached token.
TokenReadings == {0, 1, TOKEN_CACHE_TTL - 1, TOKEN_CACHE_TTL,
                  TOKEN_CACHE_TTL + 1}

\* Number of fetches from the upstream token endpoint in one behaviour.
MaxFetches == 3

\* The wall clock around the age limit of the cached token.
TickToken ==
    /\ \E t \in TokenReadings : t > now /\ now' = t
    /\ UNCHANGED <<periphery, boot, ledger, slot, lock, pc, loc, hist>>

\* token and (datetime.now(timezone.utc) - timestamp) < TOKEN_CACHE_TTL
CacheFresh(c, t) == c.token # 0 /\ t - c.ts < TOKEN_CACHE_TTL

\* conversation_token: user = get_user(current_user_email)
TokStart(p) ==
    /\ pc[p] = "idle"
    /\ upstream < MaxFetches
    /\ Goto(p, "tok_gate")
    /\ SetLoc(p, [IdleLoc EXCEPT !.op = "token",
                                 !.vip = account.exists /\ member])
    /\ UNCHANGED <<periphery, boot, now, ledger, slot, lock, hist>>

\* 403 unless the user is a community member; token, timestamp =
\* _TOKEN_CACHE: the cached token is returned if it is fresh, otherwise
\* _get_eleven_token() is called.
TokCheck(p) ==
    /\ pc[p] = "tok_gate"
    /\ IF ~loc[p].vip
       THEN /\ Goto(p, "done")
            /\ SetLoc(p, DoneLoc("token", "token_denied"))
       ELSE IF CacheFresh(tokenCache, now)
       THEN /\ Goto(p, "done")
            /\ SetLoc(p, [DoneLoc("token", "token_cached")
                            EXCEPT !.tok = tokenCache.token])
       ELSE /\ Goto(p, "tok_fetch")
            /\ UNCHANGED loc
    /\ UNCHANGED <<periphery, boot, now, ledger, slot, lock, hist>>

\* token = _get_eleven_token(); _TOKEN_CACHE = (token, datetime.now(...));
\* an AppError of the upstream call is passed on and the cache is left
\* alone.  Every fetch returns a new token.
TokFetch(p) ==
    /\ pc[p] = "tok_fetch"
    /\ upstream' = upstream + 1
    /\ \E ok \in BOOLEAN :
         IF ok
         THEN /\ tokenCache' = [token |-> upstream + 1, ts |-> now]
              /\ SetLoc(p, [DoneLoc("token", "token_fetched")
                              EXCEPT !.tok = upstream + 1])
         ELSE /\ SetLoc(p, DoneLoc("token", "token_error"))
              /\ UNCHANGED tokenCache
    /\ Goto(p, "done")
    /\ UNCHANGED <<boot, now, ledger, slot, lock, hist, account, queue>>

\* The conversation-token endpoint.
TokenStep(p) ==
    \/ TokStart(p)
    \/ TokCheck(p)
    \/ TokFetch(p)
    \/ Return(p)

\* ----------------------------------------------------- signup, social login

\* "talktime": 180 in the user_data of signup and of google_auth.
WELCOME_BONUS == 180 * TicksPerSec

\* No row in users for the email.
NoAccount == [exists |-> FALSE, pw |-> FALSE]

\* signup: an invalid email or a short password is refused with 400;
\* existing_user = get_user(email); 409 if the row has a password_hash.
SignupStart(p) ==
    /\ pc[p] = "idle"
    /\ \E valid \in BOOLEAN :
         IF ~valid
         THEN /\ Goto(p, "done")
              /\ SetLoc(p, DoneLoc("signup", "signup_error"))
         ELSE IF account.exists /\ account.pw
         THEN /\ Goto(p, "done")
              /\ SetLoc(p, DoneLoc("signup", "signup_conflict"))
         ELSE /\ Goto(p, "su_get")
              /\ SetLoc(p, [IdleLoc EXCEPT !.op = "signup"])
    /\ UNCHANGED <<periphery, boot, now, ledger, slot, lock, hist>>

\* google_auth: a missing or invalid credential is refused; user =
\* get_user(email) chooses between the login and the new-user branch.
GoogleStart(p) ==
    /\ pc[p] = "idle"
    /\ \E valid \in BOOLEAN :
         IF ~valid
         THEN /\ Goto(p, "done")
              /\ SetLoc(p, DoneLoc("google", "google_error"))
         ELSE /\ Goto(p, IF account.exists THEN "ga_touch_get"
                                           ELSE "ga_new_get")
              /\ SetLoc(p, [IdleLoc EXCEPT !.op = "google",
                                           !.cur = talktime])
    /\ UNCHANGED <<periphery, boot, now, ledger, slot, lock, hist>>

\* update_user: existing_user = get_user(email), which only chooses the
\* defaults of the fields the caller's data leaves out.
UpdateUserGet(p) ==
    /\ pc[p] \in {"su_get", "ga_touch_get", "ga_new_get"}
    /\ Goto(p, CASE pc[p] = "su_get" -> "su_upsert"
                 [] pc[p] = "ga_touch_get" -> "ga_touch_upsert"
                 [] pc[p] = "ga_new_get" -> "ga_new_upsert")
    /\ SetLoc(p, [loc[p] EXCEPT !.aft = account.exists])
    /\ UNCHANGED <<periphery, boot, now, ledger, slot, lock, hist>>

\* signup: update_user(email, user_data) with password_hash and
\* "talktime": 180: the upsert writes both over whatever the row holds.
SignupUpsert(p) ==
    /\ pc[p] = "su_upsert"
    /\ account' = [exists |-> TRUE, pw |-> TRUE]
    /\ talktime' = WELCOME_BONUS
    /\ Goto(p, "done")
    /\ SetLoc(p, DoneLoc("signup", "signup_ok"))
    /\ UNCHANGED <<boot, now, member, lastRefill, transactions, slot, lock,
                   hist, queue, tokenCache, upstream>>

\* google_auth, new user: update_user(email, user_data) with
\* "password_hash": None and "talktime": 180.
GoogleNewUpsert(p) ==
    /\ pc[p] = "ga_new_upsert"
    /\ account' = [exists |-> TRUE, pw |-> FALSE]
    /\ talktime' = WELCOME_BONUS
    /\ Goto(p, "done")
    /\ SetLoc(p, [DoneLoc("google", "google_created")
                    EXCEPT !.rem = WELCOME_BONUS])
    /\ UNCHANGED <<boot, now, member, lastRefill, transactions, slot, lock,
                   hist, queue, tokenCache, upstream>>

\* google_auth, existing user: update_user(email, {last_login, name}); the
\* upsert leaves talktime and password_hash of the row alone, and the
\* response carries the talktime read at the start.
GoogleTouchUpsert(p) ==
    /\ pc[p] = "ga_touch_upsert"
    /\ Goto(p, "done")
    /\ SetLoc(p, [DoneLoc("google", "google_login") EXCEPT !.rem = loc[p].cur])
    /\ UNCHANGED <<periphery, boot, now, ledger, slot, lock, hist>>

\* The signup and the Google sign-in endpoints.
AuthStep(p) ==
    \/ SignupStart(p)
    \/ GoogleStart(p)
    \/ UpdateUserGet(p)
    \/ SignupUpsert(p)
    \/ GoogleNewUpsert(p)
    \/ GoogleTouchUpsert(p)
    \/ Return(p)

\* ----------------------------------------------------------- specifications

\* A heartbeat that finds the lock free.
HeartbeatStep(p) ==
    \/ HbStart(p)
    \/ HbGet(p)
    \/ HbExpire(p)
    \/ HbGapRead(p)
    \/ HbGapWrite(p)
    \/ HbGapDel(p)
    \/ HbSubRead(p)
    \/ HbNormRead(p)
    \/ HbExhDel(p)
    \/ HbExhWrite(p)
    \/ HbNormWrite(p)
    \/ HbNormSetex(p)
    \/ HbRelease(p)

\* Heartbeat, check-in, end and the flush of a balance read.
MeterStep(p) ==
    \/ HeartbeatStep(p)
    \/ CiStart(p)
    \/ CiSetex(p)
    \/ CiAudit(p)
    \/ FlStart(p)
    \/ FlDel(p)
    \/ FlRead(p)
    \/ FlWrite(p)
    \/ EndRet(p)
    \/ BalRead(p)
    \/ Return(p)

\* The session engine: heartbeat, check-in, end and balance read, as far as
\* a handler runs them without contention for the lock.
SoloStep(p) ==
    \/ MeterStep(p)
    \/ RfRead(p)

SessionStep(p) ==
    \/ SoloStep(p)
    \/ HbLocked(p)

Next ==
    \/ Tick
    \/ \E p \in Procs : SessionStep(p)

\* Session metering of a user whose refill is not due.
Spec == Init /\ [][Next]_vars

\* The admin talktime endpoints and the payment endpoint.
OfficeStep(p) ==
    \/ AdmAddRead(p)
    \/ AdmWrite(p)
    \/ AdmSet(p)
    \/ AdmReset(p)
    \/ PayStart(p)
    \/ PayAddRead(p)
    \/ PayAddWrite(p)
    \/ PayRecord(p)
    \/ Return(p)

\* A community member who has never received the refill.
InitLedger ==
    /\ boot = Serving
    /\ now = 0
    /\ talktime \in InitBalances
    /\ member = TRUE
    /\ lastRefill = NoRefill
    /\ transactions = {}
    /\ slot = NoSlot
    /\ lock = NoLock
    /\ pc = [p \in Procs |-> "idle"]
    /\ loc = [p \in Procs |-> IdleLoc]
    /\ terminated = FALSE
    /\ startBal = talktime
    /\ adjusts = 0
    /\ PeripheryIdle

\* The handler serving the user's client, and the handler serving the
\* admin panel and the payment callbacks.
Client == "p1"
Office == "p2"

NextLedger ==
    \/ Tick
    \/ SoloStep(Client)
    \/ RfWrite(Client)
    \/ OfficeStep(Office)

\* The user's session traffic, one request at a time, together with every
\* other writer of the balance: refill, admin endpoints and payment.
SpecLedger == InitLedger /\ [][NextLedger]_vars

\* The admin membership endpoints: community add, community remove and
\* toggle-vip.
MemberStep(p) ==
    \/ ComAddRead(p)
    \/ ComAddWrite(p)
    \/ ComRemove(p)
    \/ VipRead(p)
    \/ VipWrite(p)
    \/ Return(p)

\* A user who has never received the refill, member or not.
InitMember ==
    /\ boot = Serving
    /\ now = 0
    /\ talktime \in InitBalances
    /\ member \in BOOLEAN
    /\ lastRefill = NoRefill
    /\ transactions = {}
    /\ slot = NoSlot
    /\ lock = NoLock
    /\ pc = [p \in Procs |-> "idle"]
    /\ loc = [p \in Procs |-> IdleLoc]
    /\ terminated = FALSE
    /\ startBal = talktime
    /\ adjusts = 0
    /\ PeripheryIdle

NextMember ==
    \/ TickCalendar
    \/ MeterStep(Client)
    \/ RfReadUpTo(Client, MaxRefills)
    \/ RfWrite(Client)
    \/ MemberStep(Office)

\* The user's session traffic and balance reads over the weeks, while the
\* admin changes the user's membership.
SpecMember == InitMember /\ [][NextMember]_vars

NextCrash ==
    \/ Tick
    \/ TickCalendar
    \/ SessionStep(Client)
    \/ RfWrite(Client)
    \/ Crash(Client)
    \/ Restart(Client)

\* The user's session traffic served by a worker that may stop in the middle
\* of any request.
SpecCrash == Init /\ [][NextCrash]_vars

\* A community member who checked in at time 0.
InitHardStop ==
    /\ boot = Serving
    /\ now = 0
    /\ talktime \in InitBalances
    /\ member = TRUE
    /\ lastRefill = [set |-> TRUE, at |-> 0]
    /\ transactions = {}
    /\ slot = [live |-> TRUE, sid |-> 1, lhb |-> 0, exp |-> SESSION_TTL]
    /\ lock = NoLock
    /\ pc = [p \in Procs |-> "idle"]
    /\ loc = [p \in Procs |-> IdleLoc]
    /\ terminated = FALSE
    /\ startBal = talktime
    /\ adjusts = 0
    /\ PeripheryIdle

NextHardStop ==
    \/ HeartbeatStep(Client)
    \/ ClientWait(Client)

\* A client that does nothing but send heartbeats, each at most 10 s after
\* the previous one; every request is served to its end.
SpecHardStop ==
    InitHardStop /\ [][NextHardStop]_vars /\ WF_vars(NextHardStop)

\* A community member with more than an hour of talk time who checked in at
\* time 0.
InitSliding ==
    /\ boot = Serving
    /\ now = 0
    /\ talktime = LongBalance
    /\ member = TRUE
    /\ lastRefill = [set |-> TRUE, at |-> 0]
    /\ transactions = {}
    /\ slot = [live |-> TRUE, sid |-> 1, lhb |-> 0, exp |-> SESSION_TTL]
    /\ lock = NoLock
    /\ pc = [p \in Procs |-> "idle"]
    /\ loc = [p \in Procs |-> IdleLoc]
    /\ terminated = FALSE
    /\ startBal = talktime
    /\ adjusts = 0
    /\ PeripheryIdle

NextSliding ==
    \/ HeartbeatStep(Client)
    \/ ClientKeepsAlive(Client)

\* A session that lasts longer than the inactivity window: the client sends
\* heartbeats until one of them ends the session.
SpecSliding == InitSliding /\ [][NextSliding]_vars

\* A community member, never refilled, who checked in at time 0.
InitReads ==
    /\ boot = Serving
    /\ now = 0
    /\ talktime \in InitBalances
    /\ member = TRUE
    /\ lastRefill = NoRefill
    /\ transactions = {}
    /\ slot = [live |-> TRUE, sid |-> 1, lhb |-> 0, exp |-> SESSION_TTL]
    /\ lock = NoLock
    /\ pc = [p \in Procs |-> "idle"]
    /\ loc = [p \in Procs |-> IdleLoc]
    /\ terminated = FALSE
    /\ startBal = talktime
    /\ adjusts = 0
    /\ PeripheryIdle

\* A balance read: flush, refill check, read.
ReadStep(p) ==
    \/ BalStart(p)
    \/ FlDel(p)
    \/ FlRead(p)
    \/ FlWrite(p)
    \/ RfReadUpTo(p, MaxRefills)
    \/ RfWrite(p)
    \/ BalRead(p)
    \/ Return(p)

NextReads ==
    \/ Tick
    \/ \E p \in Procs : ReadStep(p)

\* Balance reads of the user served by two handlers at the same time.
SpecReads == InitReads /\ [][NextReads]_vars

NextSkew ==
    \/ Tick
    \/ ClockStepsBack
    \/ SoloStep(Client)

\* The user's session traffic, one request at a time, under a wall clock
\* that may be set back.
SpecSkew == Init /\ [][NextSkew]_vars

\* POST /api/payments/razorpay/verify
PayStep(p) ==
    \/ PayStart(p)
    \/ PayAddReadUpTo(p, MaxPayments)
    \/ PayAddWrite(p)
    \/ PayRecord(p)
    \/ Return(p)

NextPay ==
    \/ Tick
    \/ \E p \in Procs : PayStep(p)

\* Verification requests for one payment order, served by two handlers.
SpecPay == Init /\ [][NextPay]_vars

NextFault ==
    \/ TickLock
    \/ \E p \in Procs : \/ HeartbeatStep(p)
                        \/ HbLocked(p)
                        \/ HbStoreError(p)
                        \/ Return(p)

\* Two handlers serving the heartbeats of a checked-in user, while any call
\* of Redis or Supabase inside the heartbeat may raise.
SpecFault == InitHardStop /\ [][NextFault]_vars

\* The environment of a process that is about to import app.py.
InitBoot ==
    /\ boot = Importing
    /\ now = 0
    /\ talktime \in InitBalances
    /\ member \in BOOLEAN
    /\ lastRefill = [set |-> TRUE, at |-> 0]
    /\ transactions = {}
    /\ slot = NoSlot
    /\ lock = NoLock
    /\ pc = [p \in Procs |-> "idle"]
    /\ loc = [p \in Procs |-> IdleLoc]
    /\ terminated = FALSE
    /\ startBal = talktime
    /\ adjusts = 0
    /\ PeripheryIdle

\* The session routes need the Supabase client and the Redis connection.
Serve(p) == boot = Serving /\ SoloStep(p)

NextBoot ==
    \/ Startup
    \/ Tick
    \/ HealthCheck(Client)
    \/ Return(Client)
    \/ Serve(Client)

\* Start-up of the process, followed by the requests it serves.
SpecBoot == InitBoot /\ [][NextBoot]_vars

NextQueue ==
    \/ \E p \in Procs : UploadSession(p) \/ Return(p)
    \/ \E w \in Workers : WorkerStep(w) \/ WorkerStop(w) \/ WorkerStart(w)

\* Uploads feeding worker processes that may stop and be started again.
SpecQueue == Init /\ [][NextQueue]_vars

NextWork ==
    \/ \E p \in Procs : UploadSession(p) \/ Return(p)
    \/ \E w \in Workers : WorkerStep(w)

\* Worker processes that keep running: while True never leaves the loop,
\* so each worker goes on taking its next step.
SpecWork ==
    /\ Init
    /\ [][NextWork]_vars
    /\ \A w \in Workers : WF_vars(WorkerStep(w))

NextToken ==
    \/ TickToken
    \/ \E p \in Procs : TokenStep(p)

\* Threads of one serving process asking for conversation tokens.
SpecToken == Init /\ [][NextToken]_vars

\* An email with no row in users, with a row created by Google sign-in (no
\* password) or with a row created by signup.
InitSignup ==
    /\ boot = Serving
    /\ now = 0
    /\ account \in {NoAccount, [exists |-> TRUE, pw |-> FALSE],
                    [exists |-> TRUE, pw |-> TRUE]}
    /\ talktime \in IF account.exists THEN InitBalances ELSE {0}
    /\ member \in BOOLEAN
    /\ lastRefill = [set |-> TRUE, at |-> 0]
    /\ transactions = {}
    /\ slot = NoSlot
    /\ lock = NoLock
    /\ pc = [p \in Procs |-> "idle"]
    /\ loc = [p \in Procs |-> IdleLoc]
    /\ terminated = FALSE
    /\ startBal = talktime
    /\ adjusts = 0
    /\ tasks = [t \in TaskIds |-> "absent"]
    /\ worker = [w \in Workers |-> Polling]
    /\ processed = [t \in TaskIds |-> 0]
    /\ claimed = [t \in TaskIds |-> 0]
    /\ tokenCache = NoToken
    /\ upstream = 0

NextSignup == \E p \in Procs : AuthStep(p)

\* Signups and Google sign-ins for one email.
SpecSignup == InitSignup /\ [][NextSignup]_vars

\* The payment callback: the endpoint that credits the user.
CreditStep(p) ==
    \/ PayStart(p)
    \/ PayAddRead(p)
    \/ PayAddWrite(p)
    \/ PayRecord(p)
    \/ Return(p)

NextCredit ==
    \/ Tick
    \/ SoloStep(Client)
    \/ CreditStep(Office)

\* The user's session traffic, one request at a time, while a payment
\* callback credits the user.
SpecCredit == Init /\ [][NextCredit]_vars

\* --------------------------------------------------------------- properties

\* Positions at which a heartbeat writes the balance.
HbWritePcs == {"hb_gap_write", "hb_exh_write", "hb_norm_write"}

\* Handler p takes a step.
Steps(p) == pc'[p] # pc[p]

Min(a, b) == IF a < b THEN a ELSE b

\* C1: after any interleaving of check-in, heartbeat, end, balance read with
\* refill, payment credit and admin add / subtract / set / reset, the
\* persisted talktime is never negative.
NonNegativity == talktime >= 0

\* A gap heartbeat found less than MAX_HEARTBEAT_GAP on the record, and the
\* balance it wrote is 0.
NonNegativityWitness ==
    /\ pc[Client] = "hb_gap_del"
    /\ loc[Client].bill
    /\ adjusts = 0
    /\ startBal < MAX_HEARTBEAT_GAP
    /\ talktime = 0

\* C2: a heartbeat that did not acquire the lock changes neither the balance
\* nor the slot, so two overlapping heartbeats of which one is refused
\* deduct together what the holder alone deducts.
LockNoOpSafety ==
    [][\A p \in Procs :
          (loc[p].op = "heartbeat" /\ ~loc[p].acq /\ pc[p] # "done" /\ Steps(p))
             => (talktime' = talktime /\ slot' = slot)]_vars

\* A refused heartbeat overlaps a lock holder that has lowered the balance.
LockNoOpSafetyWitness ==
    \E p, q \in Procs :
        /\ p # q
        /\ pc[p] = "hb_locked"
        /\ loc[q].acq /\ loc[q].bill /\ pc[q] # "done"

\* C3: at most one heartbeat call of the user is between lock acquisition
\* and lock release.
Serialization ==
    Cardinality({p \in Procs : loc[p].acq /\ pc[p] # "done"}) <= 1

\* C4: the total deducted from the balance never exceeds the wall-clock time
\* elapsed (sessions of one user do not overlap, so the sum over the sessions
\* is bounded by the time since the system started).
NoDoubleCharge == startBal - talktime <= now

\* C5: the amount one heartbeat call deducts, i.e. the balance it read minus
\* the balance it writes, is at most MAX_HEARTBEAT_GAP, whatever the elapsed
\* time since last_heartbeat.
DeductionBounded ==
    [][\A p \in Procs :
          (pc[p] \in HbWritePcs /\ Steps(p))
             => loc[p].cur - talktime' <= MAX_HEARTBEAT_GAP]_vars

\* A heartbeat after more than MAX_HEARTBEAT_GAP of silence has lowered the
\* balance by exactly MAX_HEARTBEAT_GAP.
DeductionBoundedWitness ==
    \E p \in Procs :
        /\ pc[p] = "hb_gap_del"
        /\ loc[p].bill
        /\ talktime = startBal - MAX_HEARTBEAT_GAP

\* C6: a heartbeat issued after a heartbeat returned terminate, with no
\* check-in since, that acquires the lock returns the restart outcome.
TerminationFinality ==
    \A p \in Procs :
        (pc[p] = "hb_release" /\ loc[p].acq /\ loc[p].aft)
           => loc[p].out = "restart"

\* C7: of two heartbeats issued less than 1.0 s apart, whose readings of
\* the clock are less than 1.0 s apart as well, at most one lowers the
\* balance.
SubFloorIdempotence ==
    \A p, q \in Procs :
        (p # q /\ loc[p].op = "heartbeat" /\ loc[q].op = "heartbeat"
              /\ loc[p].bill /\ loc[q].bill)
           => \/ loc[p].iss - loc[q].iss >= MIN_DELTA
              \/ loc[q].iss - loc[p].iss >= MIN_DELTA
              \/ loc[p].nowr - loc[q].nowr >= MIN_DELTA
              \/ loc[q].nowr - loc[p].nowr >= MIN_DELTA

\* C8: a heartbeat takes the gap branch exactly when delta > 10 s; it then
\* writes the balance it read minus min(10 s, that balance), deletes the
\* slot and returns terminate with the balance written.  100 s after 45 s of
\* silence leaves 90 s; a delta of exactly 10 s is a normal heartbeat.
GapExceeded ==
    [][/\ GapBalance(100 * TicksPerSec, 45 * TicksPerSec) = 90 * TicksPerSec
       /\ HbBranch(45 * TicksPerSec) = "hb_gap_read"
       /\ \A p \in Procs :
            /\ (pc[p] = "hb_expire" /\ Steps(p))
                  => (pc'[p] = "hb_gap_read"
                         <=> now - loc[p].lhb > MAX_HEARTBEAT_GAP)
            /\ (pc[p] = "hb_gap_write" /\ Steps(p))
                  => talktime' = loc[p].cur - Min(MAX_HEARTBEAT_GAP, loc[p].cur)
            /\ (pc[p] = "hb_gap_del" /\ Steps(p))
                  => /\ ~slot'.live
                     /\ loc'[p].out = "terminate_gap"
                     /\ loc'[p].rem = loc[p].nb]_vars

\* A gap heartbeat has lowered the balance, deleted the slot and built the
\* terminate response.
GapExceededWitness ==
    \E p \in Procs :
        /\ pc[p] = "hb_release"
        /\ loc[p].out = "terminate_gap"
        /\ loc[p].bill
        /\ loc[p].rem = talktime
        /\ ~slot.live

\* C9: a heartbeat takes the normal branch exactly when 1 s <= delta <= 10 s
\* and computes max(0, balance - delta); at 0 it deletes the slot, writes 0
\* and returns terminate with 0 remaining; otherwise it writes the new
\* balance, stores last_heartbeat = now and returns ok with deducted = delta.
\* Balance 12 s: a 5 s gap leaves 7 s, then an 8 s gap leaves 0.
NormalHeartbeat ==
    [][/\ NormBalance(12 * TicksPerSec, 5 * TicksPerSec) = 7 * TicksPerSec
       /\ NormBalance(7 * TicksPerSec, 8 * TicksPerSec) = 0
       /\ \A p \in Procs :
            /\ (pc[p] = "hb_expire" /\ Steps(p))
                  => (pc'[p] = "hb_norm_read"
                         <=> /\ now - loc[p].lhb >= MIN_DELTA
                             /\ now - loc[p].lhb <= MAX_HEARTBEAT_GAP)
            /\ (pc[p] = "hb_norm_read" /\ Steps(p))
                  => /\ loc'[p].nb = IF talktime > loc[p].delta
                                     THEN talktime - loc[p].delta ELSE 0
                     /\ pc'[p] = "hb_exh_del" <=> loc'[p].nb = 0
            /\ (pc[p] = "hb_exh_del" /\ Steps(p)) => ~slot'.live
            /\ (pc[p] = "hb_exh_write" /\ Steps(p))
                  => /\ talktime' = 0
                     /\ loc'[p].out = "terminate_exhausted"
                     /\ loc'[p].rem = 0
            /\ (pc[p] = "hb_norm_write" /\ Steps(p)) => talktime' = loc[p].nb
            /\ (pc[p] = "hb_norm_setex" /\ Steps(p))
                  => /\ slot'.live /\ slot'.lhb = loc[p].nowr
                     /\ loc'[p].out = "ok"
                     /\ loc'[p].ded = loc[p].delta
                     /\ loc'[p].rem = loc[p].nb]_vars

\* A normal heartbeat found no more than delta on the record: the slot is
\* deleted, the balance is 0 and the response is terminate.
NormalHeartbeatWitness ==
    \E p \in Procs :
        /\ pc[p] = "hb_release"
        /\ loc[p].out = "terminate_exhausted"
        /\ loc[p].bill
        /\ talktime = 0
        /\ ~slot.live

\* C10: a check-in of a community member passes the funds gate if and only
\* if the balance is > 0.
FundsGate ==
    [][\A p \in Procs :
          (pc[p] = "idle" /\ Steps(p) /\ loc'[p].op = "check_in" /\ member)
             => (pc'[p] = "ci_setex" <=> talktime > 0)]_vars

\* C11: a check-in by a user who is not a community member is denied,
\* whatever the balance, and changes neither the slot nor the user's record.
MembershipGate ==
    [][\A p \in Procs :
          (pc[p] = "idle" /\ Steps(p) /\ loc'[p].op = "check_in" /\ ~member)
             => /\ pc'[p] = "done"
                /\ loc'[p].out = "denied"
                /\ slot' = slot
                /\ ledger' = ledger]_vars

\* A user with talk time left and a live slot, whose membership was removed,
\* has been denied a check-in; the slot is still there.
MembershipGateWitness ==
    /\ pc[Client] = "done"
    /\ loc[Client].op = "check_in"
    /\ loc[Client].out = "denied"
    /\ ~member
    /\ talktime >= MIN_DELTA
    /\ SlotGet.live

\* C12: the slot keeps the session id of the latest check-in: a heartbeat
\* that stores last_heartbeat does not put another session's id over a live
\* slot.
SlotSupersession ==
    [][\A p \in Procs :
          (pc[p] = "hb_norm_setex" /\ Steps(p) /\ SlotGet.live)
             => slot'.sid = slot.sid]_vars

\* C13: a heartbeat that holds the lock and finds no slot builds the restart
\* response, which differs from every other outcome; it creates no slot,
\* leaves the balance as it is, and its finally clause leaves no lock of its
\* own behind.
NoActiveSession ==
    [][\A p \in Procs :
          /\ (pc[p] = "hb_get" /\ Steps(p) /\ ~SlotGet.live)
                => /\ pc'[p] = "hb_release"
                   /\ loc'[p].out = "restart"
                   /\ slot' = slot
                   /\ talktime' = talktime
          /\ (pc[p] = "hb_release" /\ Steps(p) /\ loc[p].out = "restart")
                => /\ loc'[p].out = "restart"
                   /\ slot' = slot
                   /\ talktime' = talktime
                   /\ ~(lock'.held /\ lock'.owner = p)]_vars

\* A heartbeat sent after the session was ended has returned restart; the
\* slot is absent and the lock is free.
NoActiveSessionWitness ==
    \E p \in Procs :
        /\ pc[p] = "done"
        /\ loc[p].op = "heartbeat"
        /\ loc[p].out = "restart"
        /\ ~slot.live
        /\ ~lock.held
        /\ talktime < startBal

\* C14: end always returns success, and an end that finds no slot changes
\* neither the balance nor the slot, so repeating end has no further effect.
EndIdempotent ==
    [][\A p \in Procs :
          /\ (pc[p] = "idle" /\ Steps(p) /\ loc'[p].op = "end"
                 /\ ~SlotGet.live)
                => /\ pc'[p] = "end_ret"
                   /\ slot' = slot
                   /\ talktime' = talktime
          /\ (pc[p] = "end_ret" /\ Steps(p))
                => /\ slot' = slot
                   /\ talktime' = talktime
          /\ (loc[p].op = "end" /\ Steps(p) /\ pc'[p] = "done")
                => loc'[p].out = "ended"]_vars

\* After a session was billed and ended, a further end has found no slot and
\* is about to return success; the balance is what the first end left.
EndIdempotentWitness ==
    \E p \in Procs :
        /\ pc[p] = "end_ret"
        /\ loc[p].op = "end"
        /\ loc[p].out = "no_slot"
        /\ ~slot.live
        /\ talktime < startBal

RefillWindow ==
    now < REFILL_DAYS * TicksPerDay => talktime <= startBal + REFILL_BONUS

\* Handler p stops in the middle of a request.
Crashes(p) == pc[p] # "crashed" /\ pc'[p] = "crashed"

\* C17: when a handler stops between its two store writes, the deduction
\* that is lost is at most one capped interval.  Where the slot is written
\* first (exhausted heartbeat, flush), the deduction not yet written is at
\* most 10 s and 15 s respectively; where the balance is written first
\* (normal and gap heartbeat), the slot still carries the last_heartbeat the
\* deduction was computed from, so no elapsed time is skipped.
CrashBound ==
    [][\A p \in Procs :
          Crashes(p) =>
            /\ pc[p] = "hb_exh_write"
                  => /\ ~slot.live
                     /\ loc[p].cur <= loc[p].delta
                     /\ loc[p].delta <= MAX_HEARTBEAT_GAP
            /\ pc[p] \in {"fl_read", "fl_write"}
                  => /\ ~slot.live
                     /\ loc[p].delta <= FLUSH_CAP
            /\ pc[p] = "fl_write"
                  => loc[p].cur - loc[p].nb <= FLUSH_CAP
            /\ pc[p] = "hb_norm_setex"
                  => /\ slot.live
                     /\ slot.lhb = loc[p].nowr - loc[p].delta
            /\ pc[p] = "hb_gap_del"
                  => /\ slot.live
                     /\ loc[p].nowr - slot.lhb > MAX_HEARTBEAT_GAP]_vars

\* A flush that found more than 15 s pending has deleted the slot and has
\* stopped before its balance write: 15 s stay unbilled.
CrashBoundWitness ==
    /\ pc[Client] = "crashed"
    /\ loc[Client].op \in {"end", "balance"}
    /\ loc[Client].delta = FLUSH_CAP
    /\ loc[Client].cur > loc[Client].nb
    /\ talktime = loc[Client].cur
    /\ ~slot.live

\* A heartbeat has built the terminate response with 0 remaining, the
\* balance is 0 and the slot is deleted.
HardStopped ==
    \E p \in Procs :
        /\ pc[p] = "hb_release"
        /\ loc[p].out \in {"terminate_gap", "terminate_exhausted"}
        /\ loc[p].rem = 0
        /\ talktime = 0
        /\ ~slot.live

\* C18: a client with an active session that keeps sending heartbeats at
\* intervals of at most 10 s, with no credit added, is eventually stopped at
\* balance 0.
HardStop == <>HardStopped

\* C19: a process that found Supabase or Redis unreachable or not configured
\* at start-up has failed to start and serves no request.
StartupRefusal ==
    (boot.phase # "import"
        /\ (boot.supabase # "client" \/ boot.redis # "connected"))
       => /\ boot.phase = "failed"
          /\ \A p \in Procs : pc[p] = "idle"

\* C20: a check-in that passes the gates draws a fresh session id and reads
\* the clock without writing; its setex stores that id with last_heartbeat =
\* the time read and the 1-hour TTL over whatever slot exists; the balance is
\* never changed; the response carries the balance read at check-in.
CheckInEffect ==
    [][\A p \in Procs :
          /\ (pc[p] = "idle" /\ Steps(p) /\ pc'[p] = "ci_setex")
                => /\ SidFresh(loc'[p].sid)
                   /\ loc'[p].nowr = now
                   /\ slot' = slot
                   /\ ledger' = ledger
          /\ (pc[p] = "ci_setex" /\ Steps(p))
                => /\ slot' = [live |-> TRUE, sid |-> loc[p].sid,
                               lhb |-> loc[p].nowr, exp |-> now + SESSION_TTL]
                   /\ talktime' = talktime
          /\ (pc[p] = "ci_audit" /\ Steps(p))
                => /\ loc'[p].out = "started"
                   /\ loc'[p].rem = loc[p].cur
                   /\ slot' = slot
                   /\ talktime' = talktime]_vars

\* C21: a heartbeat that fails to acquire the lock does not wait for the
\* holder: its next step sends the response ok with deducted 0 and the note
\* "locked", and no step of it changes the slot (contents or expiry), the
\* balance or the lock.
LockContention ==
    [][\A p \in Procs :
          /\ (pc[p] = "idle" /\ Steps(p) /\ loc'[p].op = "heartbeat"
                 /\ LockBusy)
                => /\ pc'[p] = "hb_locked"
                   /\ slot' = slot
                   /\ talktime' = talktime
                   /\ lock' = lock
          /\ (pc[p] = "hb_locked" /\ Steps(p))
                => /\ pc'[p] = "done"
                   /\ loc'[p].out = "locked"
                   /\ loc'[p].ded = 0
                   /\ slot' = slot
                   /\ talktime' = talktime
                   /\ lock' = lock]_vars

\* A refused heartbeat has its response while the holder of the lock, which
\* has lowered the balance, has still to store the slot; the lock is still
\* the holder's.
LockContentionWitness ==
    \E p, q \in Procs :
        /\ p # q
        /\ pc[p] = "done"
        /\ loc[p].op = "heartbeat"
        /\ loc[p].out = "locked"
        /\ pc[q] = "hb_norm_setex"
        /\ loc[q].bill
        /\ LockBusy
        /\ lock.owner = q
        /\ SlotGet.live

SlidingExpiry ==
    [][/\ slot.live => now < slot.exp
       /\ \A p \in Procs :
            (pc[p] = "hb_expire" /\ Steps(p) /\ SlotGet.live)
               => /\ slot' = [slot EXCEPT !.exp = now + SESSION_TTL]
                  /\ pc'[p] \in {"hb_gap_read", "hb_sub_read",
                                 "hb_norm_read"}]_vars

\* More than an hour after the check-in a sub-floor heartbeat has built its
\* response: nothing was deducted, last_heartbeat is the previous one, and
\* the slot is live with a full window ahead.
SlidingExpiryWitness ==
    /\ now > SESSION_TTL
    /\ pc[Client] = "hb_release"
    /\ loc[Client].out = "ok"
    /\ loc[Client].ded = 0
    /\ SlotGet.live
    /\ slot.lhb < now
    /\ slot.exp = now + SESSION_TTL

\* C24: a flush that finds no slot changes neither the slot nor the record.
\* A flush that finds a slot deletes it, takes delta = now - last_heartbeat
\* clamped into [0 s, 15 s] and, when delta > 0, writes the balance lowered
\* by min(balance, delta); no flush lowers the balance by more than 15 s.
Flush ==
    [][\A p \in Procs :
          /\ (pc[p] = "idle" /\ Steps(p) /\ loc'[p].op \in {"end", "balance"})
                => /\ slot' = slot
                   /\ ledger' = ledger
                   /\ IF SlotGet.live
                      THEN pc'[p] = "fl_del" /\ loc'[p].lhb = slot.lhb
                      ELSE pc'[p] = AfterFlush(loc'[p].op)
          /\ (pc[p] = "fl_del" /\ Steps(p))
                => /\ ~slot'.live
                   /\ ledger' = ledger
                   /\ loc'[p].delta =
                         Max0(Min(now - loc[p].lhb, 15 * TicksPerSec))
                   /\ pc'[p] = IF loc'[p].delta > 0 THEN "fl_read"
                               ELSE AfterFlush(loc[p].op)
          /\ (pc[p] = "fl_read" /\ Steps(p))
                => /\ pc'[p] = "fl_write"
                   /\ ledger' = ledger
          /\ (pc[p] = "fl_write" /\ Steps(p))
                => /\ talktime' = talktime - Min(talktime, loc[p].delta)
                   /\ talktime - talktime' <= 15 * TicksPerSec
                   /\ pc'[p] = AfterFlush(loc[p].op)
                   /\ ~slot'.live]_vars

\* A member refilled at time 0 has ended a session whose last heartbeat was
\* more than 15 s old: the balance is down by exactly 15 s and the slot is
\* deleted.
FlushWitness ==
    /\ pc[Client] = "end_ret"
    /\ loc[Client].out # "no_slot"
    /\ now >= 20 * TicksPerSec
    /\ lastRefill = [set |-> TRUE, at |-> 0]
    /\ adjusts = 1
    /\ talktime = startBal + REFILL_BONUS - FLUSH_CAP
    /\ ~slot.live

\* C25: once an end or a balance read has been answered and no slot exists,
\* no step of a heartbeat brings a slot into existence, also when the
\* heartbeat was in flight while the flush ran.
NoResumption ==
    [][\A p, q \in Procs :
          (/\ p # q
           /\ pc[q] = "done"
           /\ loc[q].op \in {"end", "balance"}
           /\ ~SlotGet.live
           /\ loc[p].op = "heartbeat"
           /\ Steps(p))
             => ~slot'.live]_vars

\* C26: the refill check of a non-member writes nothing; a refill that
\* applies writes the balance raised by exactly 900 s, whatever the balance
\* was, fractional ones included, and stamps last_community_refill with the
\* time of the check in the same write.
RefillAmount ==
    [][\A p \in Procs :
          /\ (pc[p] = "rf_read" /\ Steps(p) /\ ~member)
                => /\ pc'[p] = "bal_read"
                   /\ ledger' = ledger
          /\ (pc[p] = "rf_write" /\ Steps(p))
                => /\ talktime' = talktime + REFILL_BONUS
                   /\ lastRefill' = [set |-> TRUE, at |-> loc[p].nowr]]_vars

\* C27: when balance reads of a due member run concurrently, the balance ends
\* up raised by the bonus once: after the refill is stamped and the reads
\* are answered, the balance is the initial one plus 900 s, less what the
\* flushes of the two reads deducted (at most 15 s each).
ConcurrentRefill ==
    (lastRefill.set /\ \A p \in Procs : pc[p] \in {"idle", "done"})
       => /\ talktime <= startBal + REFILL_BONUS
          /\ talktime >= startBal + REFILL_BONUS - 2 * FLUSH_CAP

\* C28: a heartbeat that computes a negative delta takes the sub-floor
\* branch and is answered ok with deducted 0: it writes neither the balance
\* nor the slot, so the session is not terminated.  A flush that computes a
\* negative delta takes delta 0 and makes no balance write.
ClockSkew ==
    [][\A p \in Procs :
          /\ (pc[p] = "hb_expire" /\ Steps(p) /\ now - loc[p].lhb < 0)
                => /\ pc'[p] = "hb_sub_read"
                   /\ talktime' = talktime
                   /\ slot'.live = slot.live
          /\ (pc[p] = "hb_sub_read" /\ Steps(p) /\ loc[p].delta < 0)
                => /\ pc'[p] = "hb_release"
                   /\ loc'[p].out = "ok"
                   /\ loc'[p].ded = 0
                   /\ talktime' = talktime
                   /\ slot' = slot
          /\ (pc[p] = "hb_release" /\ Steps(p) /\ loc[p].out = "ok")
                => /\ pc'[p] = "done"
                   /\ loc'[p].out = "ok"
                   /\ talktime' = talktime
                   /\ slot' = slot
          /\ (pc[p] = "fl_del" /\ Steps(p) /\ now - loc[p].lhb < 0)
                => /\ loc'[p].delta = 0
                   /\ pc'[p] = AfterFlush(loc[p].op)
                   /\ talktime' = talktime]_vars

\* The clock was set back after time had been billed: a heartbeat has
\* computed a negative delta against the stored last_heartbeat and is in
\* the sub-floor branch; the slot is live.
ClockSkewWitness ==
    /\ pc[Client] = "hb_sub_read"
    /\ loc[Client].delta < 0
    /\ slot.lhb > now
    /\ SlotGet.live
    /\ talktime < startBal

\* C29: a balance query runs the flush first, then the refill check, then
\* the read.  Its flush deletes the slot and lowers the balance by the
\* pending time, at most 15 s; the refill check and the read find no slot,
\* and the balance reported is the one on the record after both.
BalanceRead ==
    [][\A p \in Procs :
          /\ (pc[p] = "idle" /\ Steps(p) /\ loc'[p].op = "balance")
                => pc'[p] = IF SlotGet.live THEN "fl_del" ELSE "rf_read"
          /\ (loc[p].op = "balance" /\ Steps(p)) =>
                /\ pc[p] = "fl_del"
                      => /\ ~slot'.live
                         /\ loc'[p].delta <= 15 * TicksPerSec
                         /\ pc'[p] = IF loc'[p].delta > 0 THEN "fl_read"
                                     ELSE "rf_read"
                /\ pc[p] = "fl_read" => pc'[p] = "fl_write"
                /\ pc[p] = "fl_write"
                      => /\ pc'[p] = "rf_read"
                         /\ talktime' = Max0(talktime - loc[p].delta)
                /\ pc[p] = "rf_read"
                      => /\ ~SlotGet.live
                         /\ pc'[p] \in {"rf_write", "bal_read"}
                /\ pc[p] = "rf_write" => pc'[p] = "bal_read"
                /\ pc[p] = "bal_read"
                      => /\ pc'[p] = "done"
                         /\ loc'[p].rem = talktime
                         /\ ledger' = ledger
                         /\ ~SlotGet.live /\ slot' = slot]_vars

\* A member refilled at time 0 has asked for the balance more than 15 s
\* after the last heartbeat of a session: the answer is the refilled balance
\* less 15 s, and the slot is gone.
BalanceReadWitness ==
    /\ pc[Client] = "done"
    /\ loc[Client].op = "balance"
    /\ loc[Client].rem = startBal + REFILL_BONUS - FLUSH_CAP
    /\ talktime = loc[Client].rem
    /\ now >= 20 * TicksPerSec
    /\ lastRefill = [set |-> TRUE, at |-> 0]
    /\ adjusts = 1
    /\ ~slot.live

\* C30: a payment order credits talk time at most once.  There is one order
\* and only payments change the balance here, so the balance never exceeds
\* the initial one by more than one credit.
PaymentReplay == talktime <= startBal + PAYMENT_CREDIT

\* C31: with any number of worker processes polling concurrently, each
\* queued task is processed by exactly one worker exactly once: it is never
\* claimed twice, never in the hands of two workers, its care plan is never
\* sent twice, a completed task was processed once, and a task taken off
\* the queue is in the hands of a worker, also when a worker stops while
\* processing it.
TaskExactlyOnce ==
    \A t \in TaskIds :
      /\ claimed[t] <= 1
      /\ processed[t] <= 1
      /\ Cardinality({w \in Workers : worker[w].task = t}) <= 1
      /\ tasks[t] = "completed" => processed[t] = 1
      /\ tasks[t] = "processing" => \E w \in Workers : worker[w].task = t

\* C32: every task claimed by a worker eventually has status completed or
\* failed (failed when a processing step raised, completed otherwise), the
\* worker loop going on to the next task after a failure.
TaskTerminalStatus ==
    \A t \in TaskIds :
      (tasks[t] = "processing") ~> (tasks[t] \in {"completed", "failed"})

\* C33: upload_session answers that processing is queued only if the
\* care-plan task was inserted into the tasks table (the answer itself never
\* waits for the task: it may be sent while the task is still pending).
ReliableEnqueue ==
    \A p \in Procs :
      (loc[p].op = "upload" /\ loc[p].out = "queued")
        => (loc[p].tid \in TaskIds /\ tasks[loc[p].tid] # "absent")

\* C34: a request to the upstream token endpoint is made only while the
\* cached token is absent or 55 seconds old (of several requests that find
\* it so, one fetches and the others receive that token), and a cached
\* token is returned only while it is younger than 55 seconds.
TokenSingleFlight ==
    [][/\ upstream' > upstream => ~CacheFresh(tokenCache, now)
       /\ \A p \in Procs :
            (Steps(p) /\ loc'[p].out = "token_cached")
              => /\ loc'[p].tok = tokenCache.token
                 /\ now - tokenCache.ts < TOKEN_CACHE_TTL]_vars

\* C35: the welcome bonus is granted only when the user's row is first
\* created: once a row exists for the email, no step of a signup or of a
\* Google sign-in for that email changes its talktime.
WelcomeBonusOnce ==
    [][\A p \in Procs :
         (Steps(p) /\ loc[p].op \in {"signup", "google"} /\ account.exists)
           => talktime' = talktime]_vars

\* C36: a payment credit applied while a heartbeat or flush of the user is
\* in progress is never overwritten, so that the balance ends up as the
\* starting balance plus all credits minus all deductions, floored at 0:
\* every balance write of a heartbeat or flush lowers the balance that is
\* stored at that moment by its deduction.
CreditsNotLost ==
    [][(Steps(Client) /\ pc[Client] \in HbWritePcs \cup {"fl_write"})
          => talktime' = Max0(talktime - (IF pc[Client] = "hb_gap_write"
                                          THEN MAX_HEARTBEAT_GAP
                                          ELSE loc[Client].delta))]_vars

\* C37: when check_in replaces a live slot, the time elapsed since that
\* slot's last_heartbeat, up to the cap, is billed by then: the setex that
\* moves last_heartbeat forward over a live slot leaves the balance lower
\* by that time (floored at 0), so repeated check-ins give no free time.
NoUnbilledRecheckin ==
    [][\A p \in Procs :
          (pc[p] = "ci_setex" /\ Steps(p) /\ SlotGet.live
             /\ loc[p].nowr - slot.lhb >= MIN_DELTA)
            => talktime' <= Max0(loc[p].cur
                                   - Min(loc[p].nowr - slot.lhb,
                                         MAX_HEARTBEAT_GAP))]_vars

\* C38: a heartbeat with delta < 1.0 s leaves last_heartbeat unchanged, so
\* in a session whose balance suffices and in which no heartbeat measured a
\* gap above 10 s, the heartbeats have together deducted exactly the
\* wall-clock time from check_in (time 0) to the last heartbeat that
\* deducted, whatever number of sub-floor heartbeats came in between.
SubFloorNoLoss ==
    (SlotGet.live /\ pc[Client] \in {"idle", "done"})
       => startBal - talktime = slot.lhb

\* The first deduction of the session, answered 1 s after check-in to a
\* client that pauses 0.5 s: the heartbeat sent at 0.5 s was sub-floor, and
\* this one has deducted the whole second.
SubFloorNoLossWitness ==
    /\ pc[Client] = "done"
    /\ loc[Client].out = "ok"
    /\ loc[Client].bill
    /\ SlotGet.live
    /\ now = MIN_DELTA
    /\ slot.lhb = MIN_DELTA
    /\ talktime = startBal - MIN_DELTA

\* C39: a payment verification request that has missing fields, an invalid
\* signature or an already-processed order id leaves the balance and the
\* transactions table unchanged and returns an error outcome: the step that
\* answers with the error changes nothing in the ledger, and no request is
\* accepted for an order id that is in the transactions table.
RejectedPayment ==
    [][\A p \in Procs :
          (pc[p] = "idle" /\ Steps(p) /\ loc'[p].op = "payment")
            => /\ loc'[p].out = "pay_error" => ledger' = ledger
               /\ transactions # {}
                    => (loc'[p].out = "pay_error" /\ pc'[p] = "done")]_vars

====
